---- MODULE Spec2Model ----
(***************************************************************************)
(* TinyShell job control (version 3): the Job Table of jobs.cpp, the       *)
(* SIGCHLD handler, check_job_status_changes, the built-ins fg / bg / jobs *)
(* and the executors executeCommand / executePipeline of tinyshell.cpp,    *)
(* together with the child processes and the controlling terminal they     *)
(* act on.                                                                 *)
(*                                                                         *)
(* The main flow is a program counter pc with its locals in loc.  The      *)
(* SIGCHLD handler is one action that may fire between any two steps of    *)
(* the main flow and runs to completion.  Child processes change state     *)
(* (exit, killed, stop) as environment actions.                            *)
(*                                                                         *)
(* Spec      the whole shell                                               *)
(* FairSpec  the whole shell under the scheduling the code can rely on     *)
(* SpecTable the Job Table API of jobs.cpp on its own                      *)
(***************************************************************************)
EXTENDS Integers, Sequences, FiniteSets, TLC

\* ------------------------------------------------------------------------
\* Bounds of the model
\* ------------------------------------------------------------------------
MaxProcs == 2      \* forks the shell performs in one run (pids 1..MaxProcs)
MaxStages == 2     \* longest pipeline the user types
MaxTableOps == 4   \* addJob calls in the Job Table API specification

\* ------------------------------------------------------------------------
\* Program constants
\* ------------------------------------------------------------------------
shell_pgid == 0    \* the shell's own process group (pids of children are >= 1)
NoJob == 0         \* nullptr returned by getJob / getJobByPgid / getMostRecentJob

RUNNING == "Running"
STOPPED == "Stopped"
DONE == "Done"
JobState == {RUNNING, STOPPED, DONE}

Pids == 1..MaxProcs

VARIABLES
    jobTable,            \* std::vector<Job>
    nextJobId,           \* int nextJobId = 1
    job_status_changed,  \* volatile sig_atomic_t
    term_pgrp,           \* foreground process group of shell_terminal
    proc,                \* the children the shell has forked
    nextPid,             \* pid the next fork returns
    open_pipes,          \* pipes of the current pipeline whose fds the shell holds
    pc,                  \* position of the main flow
    loc,                 \* locals of the function the main flow is in
    ret,                 \* value returned to main by the step just taken
    out                  \* lines written by the step just taken

vars == <<jobTable, nextJobId, job_status_changed, term_pgrp, proc, nextPid,
          open_pipes, pc, loc, ret, out>>

\* ------------------------------------------------------------------------
\* jobs.cpp: the Job Table
\* ------------------------------------------------------------------------
Job(id, pgid, state, pids) ==
    [jobId |-> id, pgid |-> pgid, state |-> state, pids |-> pids,
     is_current |-> TRUE, notified |-> FALSE]

\* index of the first job satisfying the lookup, NoJob when there is none
getJob(tbl, jobId) ==
    IF \E k \in DOMAIN tbl : tbl[k].jobId = jobId
    THEN CHOOSE k \in DOMAIN tbl :
            /\ tbl[k].jobId = jobId
            /\ \A m \in 1..(k-1) : tbl[m].jobId # jobId
    ELSE NoJob

getJobByPgid(tbl, pgid) ==
    IF \E k \in DOMAIN tbl : tbl[k].pgid = pgid
    THEN CHOOSE k \in DOMAIN tbl :
            /\ tbl[k].pgid = pgid
            /\ \A m \in 1..(k-1) : tbl[m].pgid # pgid
    ELSE NoJob

\* faulty variant of addJob: the id is taken from the size of the table
addJobReuseId(tbl, nid, pgid, state, pids) ==
    Append([k \in DOMAIN tbl |-> [tbl[k] EXCEPT !.is_current = FALSE]],
           Job(Len(tbl) + 1, pgid, state, pids))

\* the table after addJob; the id it assigned is nid, and nextJobId becomes nid+1
addJob(tbl, nid, pgid, state, pids) ==
    Append([k \in DOMAIN tbl |-> [tbl[k] EXCEPT !.is_current = FALSE]],
           Job(nid, pgid, state, pids))

\* the line addJob writes, whatever the initial state
addJobNotice(nid, pgid) == [k |-> "created", id |-> nid, pgid |-> pgid]

Erase(tbl, k) ==
    [m \in 1..(Len(tbl) - 1) |-> IF m < k THEN tbl[m] ELSE tbl[m + 1]]

\* faulty variant of removeJob: the entry is erased and nothing is promoted
removeJobNoPromote(tbl, jobId) ==
    LET k == getJob(tbl, jobId) IN
    IF k = NoJob THEN tbl ELSE Erase(tbl, k)

removeJob(tbl, jobId) ==
    LET k == getJob(tbl, jobId) IN
    IF k = NoJob THEN tbl
    ELSE LET t == Erase(tbl, k) IN
         IF Len(t) > 0
         THEN [t EXCEPT ![Len(t)].is_current = TRUE]
         ELSE t

updateJobState(tbl, jobId, newState) ==
    LET k == getJob(tbl, jobId) IN
    IF k = NoJob THEN tbl ELSE [tbl EXCEPT ![k].state = newState]

\* faulty variant of getMostRecentJob: always the last job of the table
getMostRecentJobLast(tbl) ==
    IF Len(tbl) = 0 THEN NoJob ELSE Len(tbl)

getMostRecentJob(tbl) ==
    IF Len(tbl) = 0 THEN NoJob
    ELSE IF \E k \in DOMAIN tbl : tbl[k].is_current
         THEN CHOOSE k \in DOMAIN tbl :
                 /\ tbl[k].is_current
                 /\ \A m \in 1..(k-1) : ~tbl[m].is_current
         ELSE Len(tbl)

markJobAsCurrent(tbl, jobId) ==
    [k \in DOMAIN tbl |-> [tbl[k] EXCEPT !.is_current = (tbl[k].jobId = jobId)]]

Sigil(job) == IF job.is_current THEN "+" ELSE " "

\* faulty variant of printJobs: no line ever ends in " &"
RECURSIVE printJobsNoAmp(_)
printJobsNoAmp(tbl) ==
    IF Len(tbl) = 0 THEN <<>>
    ELSE LET job == Head(tbl) IN
         (IF job.state = DONE THEN <<>>
          ELSE <<[k |-> "list", id |-> job.jobId,
                  sigil |-> IF job.is_current THEN "+" ELSE "-",
                  state |-> job.state, amp |-> FALSE]>>)
         \o printJobsNoAmp(Tail(tbl))

\* faulty variant of printJobs: DONE jobs are listed as well
RECURSIVE printJobsAll(_)
printJobsAll(tbl) ==
    IF Len(tbl) = 0 THEN <<>>
    ELSE LET job == Head(tbl) IN
         <<[k |-> "list", id |-> job.jobId,
            sigil |-> IF job.is_current THEN "+" ELSE "-",
            state |-> job.state, amp |-> (job.state = RUNNING)]>>
         \o printJobsAll(Tail(tbl))

\* printJobs: one line per job that is not DONE
RECURSIVE printJobs(_)
printJobs(tbl) ==
    IF Len(tbl) = 0 THEN <<>>
    ELSE LET job == Head(tbl) IN
         (IF job.state = DONE THEN <<>>
          ELSE <<[k |-> "list", id |-> job.jobId,
                  sigil |-> IF job.is_current THEN "+" ELSE "-",
                  state |-> job.state, amp |-> (job.state = RUNNING)]>>)
         \o printJobs(Tail(tbl))


\* ------------------------------------------------------------------------
\* Initial state: init_shell has run on an interactive terminal
\* ------------------------------------------------------------------------
NoArg == -1        \* args.size() <= 1: the built-in was given no job id

NoProc == [st |-> "none", ws |-> "none", pgid |-> shell_pgid]

Reaped == [NoProc EXCEPT !.st = "reaped"]

LocInit == [n |-> 0, i |-> 0, bg |-> FALSE, pid |-> 0, pgid |-> 0,
            pids |-> <<>>, job |-> NoJob, it |-> 0]

NoRet == <<>>

Init ==
    /\ jobTable = <<>>
    /\ nextJobId = 1
    /\ job_status_changed = 0
    /\ term_pgrp = shell_pgid
    /\ proc = [p \in Pids |-> NoProc]
    /\ nextPid = 1
    /\ open_pipes = 0
    /\ pc = "check"
    /\ loc = LocInit
    /\ ret = NoRet
    /\ out = <<>>

\* ------------------------------------------------------------------------
\* Child processes and the wait statuses the kernel keeps for them
\*   st: none (not forked), forked (child code before execve), running,
\*       stopped, exited / signaled (zombie), reaped
\*   ws: the stop / continue status not yet reported by a waitpid
\* A child exits by itself, is stopped (SIGTSTP from the terminal, SIGSTOP,
\* SIGTTIN) or killed by a signal at any time; SIGCONT is sent by the shell only.
\* ------------------------------------------------------------------------
Zombie(p) == proc[p].st \in {"exited", "signaled"}

\* children of the shell that waitpid can still name
IsChild(p) == proc[p].st \notin {"none", "reaped"}

GroupMembers(pgid) == {p \in Pids : IsChild(p) /\ proc[p].pgid = pgid}

\* the status waitpid reports for p, "none" when it has nothing to report
WaitStatus(p, untraced, continued) ==
    IF Zombie(p) THEN proc[p].st
    ELSE IF untraced /\ proc[p].ws = "stopped" THEN "stopped"
    ELSE IF continued /\ proc[p].ws = "continued" THEN "continued"
    ELSE "none"

\* the process table after waitpid has reported p's status
Collected(pr, p) ==
    IF pr[p].st \in {"exited", "signaled"}
    THEN [pr EXCEPT ![p] = Reaped]
    ELSE [pr EXCEPT ![p].ws = "none"]

\* faulty variant of KillCont: the signal is never sent
KillContNone(pr, pgid) == pr

\* kill(-pgid, SIGCONT): every stopped member of the group resumes
KillCont(pr, pgid) ==
    [p \in Pids |->
        IF pr[p].pgid = pgid /\ pr[p].st = "stopped"
        THEN [pr[p] EXCEPT !.st = "running", !.ws = "continued"]
        ELSE pr[p]]

\* faulty variant of ChildTakesTerminal: the leader of a background job calls
\* tcsetpgrp as well
ChildTakesTerminalLead(lead, bg) == lead

\* The child's own code between fork and execve.  Only the leader of a
\* foreground job touches state the shell shares with it (tcsetpgrp), so only
\* that child is given the intermediate state "forked"; every other child is
\* "running" from its fork on.  The child's setpgid is the same call as the
\* parent's and is taken at the fork.
ChildTakesTerminal(lead, bg) == lead /\ ~bg

\* tcsetpgrp(shell_terminal, getpid()) in the child, then the program runs or
\* the child exits at once (127 not found, 1 redirection or execve failed)
ChildSetup(p) ==
    /\ proc[p].st = "forked"
    /\ term_pgrp' = p
    /\ \E res \in {"running", "exited"} : proc' = [proc EXCEPT ![p].st = res]
    /\ out' = <<>>
    /\ UNCHANGED <<jobTable, nextJobId, job_status_changed, nextPid,
                   open_pipes, pc, loc>>
    /\ ret' = NoRet

ChildExit(p) ==
    /\ proc[p].st = "running"
    /\ proc' = [proc EXCEPT ![p].st = "exited", ![p].ws = "none"]
    /\ out' = <<>>
    /\ UNCHANGED <<jobTable, nextJobId, job_status_changed, term_pgrp,
                   nextPid, open_pipes, pc, loc>>
    /\ ret' = NoRet

ChildKilled(p) ==
    /\ proc[p].st \in {"running", "stopped"}
    /\ proc' = [proc EXCEPT ![p].st = "signaled", ![p].ws = "none"]
    /\ out' = <<>>
    /\ UNCHANGED <<jobTable, nextJobId, job_status_changed, term_pgrp,
                   nextPid, open_pipes, pc, loc>>
    /\ ret' = NoRet

ChildStop(p) ==
    /\ proc[p].st = "running"
    /\ proc' = [proc EXCEPT ![p].st = "stopped", ![p].ws = "stopped"]
    /\ out' = <<>>
    /\ UNCHANGED <<jobTable, nextJobId, job_status_changed, term_pgrp,
                   nextPid, open_pipes, pc, loc>>
    /\ ret' = NoRet

\* ------------------------------------------------------------------------
\* sigchld_handler
\* ------------------------------------------------------------------------
\* the state the handler writes for a wait status
HandlerState(status) ==
    IF status \in {"exited", "signaled"} THEN DONE
    ELSE IF status = "stopped" THEN STOPPED
    ELSE RUNNING

\* the job the handler updates for the pid waitpid returned
HandlerJob(tbl, pid) == getJobByPgid(tbl, pid)

\* faulty variant of HandlerUpdate: the handler erases the row of a job it
\* finds terminated (removeJob called from the handler)
HandlerUpdateErasing(tbl, flag, pid, status) ==
    LET k == HandlerJob(tbl, pid) IN
    IF k # NoJob
    THEN IF HandlerState(status) = DONE
         THEN <<removeJob(tbl, tbl[k].jobId), 1>>
         ELSE <<[tbl EXCEPT ![k].state = HandlerState(status)], 1>>
    ELSE <<tbl, flag>>

\* one pass of the handler's loop body: <<table, flag>> after pid was collected
HandlerUpdate(tbl, flag, pid, status) ==
    LET k == HandlerJob(tbl, pid) IN
    IF k # NoJob
    THEN <<[tbl EXCEPT ![k].state = HandlerState(status)], 1>>
    ELSE <<tbl, flag>>

\* the handler's loop: every status waitpid(-1, WNOHANG|WUNTRACED|WCONTINUED)
\* can report is collected before it returns
RECURSIVE HandlerLoop(_, _, _)
HandlerLoop(tf, pr, S) ==
    IF S = {} THEN tf
    ELSE LET p == CHOOSE q \in S : \A r \in S : q <= r IN
         HandlerLoop(HandlerUpdate(tf[1], tf[2], p, WaitStatus(p, TRUE, TRUE)),
                     pr, S \ {p})

Pending == {p \in Pids : WaitStatus(p, TRUE, TRUE) # "none"}

RECURSIVE CollectAll(_, _)
CollectAll(pr, S) ==
    IF S = {} THEN pr
    ELSE LET p == CHOOSE q \in S : TRUE IN CollectAll(Collected(pr, p), S \ {p})

sigchld_handler ==
    /\ Pending # {}
    /\ LET tf == HandlerLoop(<<jobTable, job_status_changed>>, proc, Pending) IN
          /\ jobTable' = tf[1]
          /\ job_status_changed' = tf[2]
    /\ proc' = CollectAll(proc, Pending)
    /\ out' = <<>>
    /\ UNCHANGED <<nextJobId, term_pgrp, nextPid, open_pipes, pc, loc>>
    /\ ret' = NoRet

\* ------------------------------------------------------------------------
\* main loop: check_job_status_changes, then the prompt
\* ------------------------------------------------------------------------
Return(r) ==
    /\ pc' = "check"
    /\ ret' = <<r>>
    /\ loc' = LocInit

DoneNotice(job) == [k |-> "done", id |-> job.jobId, sigil |-> Sigil(job)]

StopNotice(job) == [k |-> "stopped", id |-> job.jobId, sigil |-> Sigil(job)]

\* the flag test and reset at the top of check_job_status_changes
check_begin ==
    /\ pc = "check"
    /\ IF job_status_changed = 0
       THEN /\ pc' = "prompt"
            /\ UNCHANGED <<job_status_changed, loc>>
       ELSE /\ job_status_changed' = 0
            /\ pc' = "scan"
            /\ loc' = [LocInit EXCEPT !.it = 1]
    /\ ret' = NoRet
    /\ out' = <<>>
    /\ UNCHANGED <<jobTable, nextJobId, term_pgrp, proc, nextPid, open_pipes>>

\* faulty variant of ScanErase: the reported job is marked notified and left
\* in the table
ScanKeepNotified(tbl, it) == [tbl EXCEPT ![it].notified = TRUE]

\* what one iteration of the scan does to the table when it reports the job at
\* it: notified = true, then erase
ScanErase(tbl, it) == Erase([tbl EXCEPT ![it].notified = TRUE], it)

\* faulty variant of check_scan: the flag is cleared when the scan ends
check_scanClearsFlagLast ==
    /\ pc = "scan"
    /\ IF loc.it > Len(jobTable)
       THEN /\ pc' = "prompt"
            /\ loc' = LocInit
            /\ out' = <<>>
            /\ job_status_changed' = 0
            /\ UNCHANGED jobTable
       ELSE LET job == jobTable[loc.it] IN
            IF job.state = DONE /\ ~job.notified
            THEN /\ out' = <<DoneNotice(job)>>
                 /\ jobTable' = ScanErase(jobTable, loc.it)
                 /\ UNCHANGED <<pc, loc, job_status_changed>>
            ELSE /\ loc' = [loc EXCEPT !.it = @ + 1]
                 /\ out' = <<>>
                 /\ UNCHANGED <<pc, jobTable, job_status_changed>>
    /\ UNCHANGED <<nextJobId, term_pgrp, proc, nextPid, open_pipes>>
    /\ ret' = NoRet

\* one iteration of the scan loop
check_scan ==
    /\ pc = "scan"
    /\ IF loc.it > Len(jobTable)
       THEN /\ pc' = "prompt"
            /\ loc' = LocInit
            /\ out' = <<>>
            /\ UNCHANGED jobTable
       ELSE LET job == jobTable[loc.it] IN
            IF job.state = DONE /\ ~job.notified
            THEN /\ out' = <<DoneNotice(job)>>
                 /\ jobTable' = ScanErase(jobTable, loc.it)
                 /\ UNCHANGED <<pc, loc>>
            ELSE /\ loc' = [loc EXCEPT !.it = @ + 1]
                 /\ out' = <<>>
                 /\ UNCHANGED <<pc, jobTable>>
    /\ UNCHANGED <<nextJobId, job_status_changed, term_pgrp, proc, nextPid,
                   open_pipes>>
    /\ ret' = NoRet

\* the lines one whole run of check_job_status_changes writes for table tbl
\* when the flag is set: a line for each job that is DONE and not notified
RECURSIVE SyncNotices(_)
SyncNotices(tbl) ==
    IF Len(tbl) = 0 THEN <<>>
    ELSE (IF Head(tbl).state = DONE /\ ~Head(tbl).notified
          THEN <<DoneNotice(Head(tbl))>>
          ELSE <<>>)
         \o SyncNotices(Tail(tbl))


\* ------------------------------------------------------------------------
\* executeCommand (one command, no pipe)
\* ------------------------------------------------------------------------
Forked(pgid, lead, bg) ==
    [st |-> IF ChildTakesTerminal(lead, bg) THEN "forked" ELSE "running",
     ws |-> "none", pgid |-> pgid]

\* findInPath returned "": nothing is forked
ec_not_found ==
    /\ pc = "prompt"
    /\ out' = <<[k |-> "err", what |-> "command not found"]>>
    /\ Return(127)
    /\ UNCHANGED <<jobTable, nextJobId, job_status_changed, term_pgrp, proc,
                   nextPid, open_pipes>>

\* faulty variant of ec_fork_failed: the failure is reported to the caller
\* as success
ec_fork_failedReturnsZero ==
    /\ pc = "prompt"
    /\ out' = <<[k |-> "err", what |-> "fork failed"]>>
    /\ Return(0)
    /\ UNCHANGED <<jobTable, nextJobId, job_status_changed, term_pgrp, proc,
                   nextPid, open_pipes>>

ec_fork_failed ==
    /\ pc = "prompt"
    /\ out' = <<[k |-> "err", what |-> "fork failed"]>>
    /\ Return(-1)
    /\ UNCHANGED <<jobTable, nextJobId, job_status_changed, term_pgrp, proc,
                   nextPid, open_pipes>>

\* fork succeeded; the parent's setpgid(pid, pid) follows at once
ec_fork(bg) ==
    /\ pc = "prompt"
    /\ nextPid <= MaxProcs
    /\ proc' = [proc EXCEPT ![nextPid] = Forked(nextPid, TRUE, bg)]
    /\ nextPid' = nextPid + 1
    /\ pc' = "ec_parent"
    /\ loc' = [LocInit EXCEPT !.bg = bg, !.pid = nextPid, !.n = 1]
    /\ out' = <<>>
    /\ UNCHANGED <<jobTable, nextJobId, job_status_changed, term_pgrp,
                   open_pipes>>
    /\ ret' = NoRet

\* the table and the lines written when a job is registered
RegisterJob(pgid, state, pids) ==
    /\ jobTable' = addJob(jobTable, nextJobId, pgid, state, pids)
    /\ nextJobId' = nextJobId + 1

\* the parent branch after the fork: register a background job, or hand the
\* terminal to the child and go and wait for it
ec_parent ==
    /\ pc = "ec_parent"
    /\ IF loc.bg
       THEN /\ RegisterJob(loc.pid, RUNNING, <<loc.pid>>)
            /\ out' = <<addJobNotice(nextJobId, loc.pid)>>
            /\ Return(0)
            /\ UNCHANGED term_pgrp
       ELSE /\ term_pgrp' = loc.pid
            /\ pc' = "ec_wait"
            /\ out' = <<>>
            /\ UNCHANGED <<jobTable, nextJobId, loc>>
            /\ ret' = NoRet
    /\ UNCHANGED <<job_status_changed, proc, nextPid, open_pipes>>

\* the lines a foreground executor writes when it registers a stopped job
StopLines(tbl, nid, pgid) ==
    LET k == getJobByPgid(tbl, pgid) IN
    <<addJobNotice(nid, pgid)>> \o
    (IF k # NoJob THEN <<StopNotice(tbl[k])>> ELSE <<>>)

\* faulty variant of ec_wait: a job is registered for every foreground child
\* whose status is collected, terminated or stopped
ec_waitRegistersAll ==
    /\ pc = "ec_wait"
    /\ LET p == loc.pid
           status == WaitStatus(p, TRUE, FALSE) IN
       \/ /\ status \in {"exited", "signaled", "stopped"}
          /\ proc' = Collected(proc, p)
          /\ RegisterJob(p, HandlerState(status), <<p>>)
          /\ out' = StopLines(jobTable', nextJobId, p)
       \/ /\ ~IsChild(p)
          /\ out' = <<>>
          /\ UNCHANGED <<proc, jobTable, nextJobId>>
    /\ term_pgrp' = shell_pgid
    /\ Return(0)
    /\ UNCHANGED <<job_status_changed, nextPid, open_pipes>>

\* waitpid(pid, &status, WUNTRACED) returns, and the rest of the function
ec_wait ==
    /\ pc = "ec_wait"
    /\ LET p == loc.pid
           status == WaitStatus(p, TRUE, FALSE) IN
       \/ /\ status \in {"exited", "signaled"}
          /\ proc' = Collected(proc, p)
          /\ out' = <<>>
          /\ UNCHANGED <<jobTable, nextJobId>>
       \/ /\ status = "stopped"
          /\ proc' = Collected(proc, p)
          /\ RegisterJob(p, STOPPED, <<p>>)
          /\ out' = StopLines(jobTable', nextJobId, p)
       \/ /\ ~IsChild(p)             \* ECHILD: the handler reaped it
          /\ out' = <<>>
          /\ UNCHANGED <<proc, jobTable, nextJobId>>
    /\ term_pgrp' = shell_pgid
    /\ Return(0)
    /\ UNCHANGED <<job_status_changed, nextPid, open_pipes>>

\* ------------------------------------------------------------------------
\* executePipeline
\* ------------------------------------------------------------------------
\* the loop that creates the numCmds - 1 pipes: all of them, or a failure at
\* pipe number failAt (0-based), which returns -1 at once
ep_pipes(n, bg) ==
    /\ pc = "prompt"
    /\ nextPid + n - 1 <= MaxProcs
    /\ \/ /\ open_pipes' = n - 1
          /\ pc' = "ep_fork"
          /\ loc' = [LocInit EXCEPT !.n = n, !.bg = bg]
          /\ out' = <<>>
          /\ ret' = NoRet
       \/ \E failAt \in 0..(n - 2) :
          /\ open_pipes' = failAt
          /\ out' = <<[k |-> "err", what |-> "pipe failed"]>>
          /\ Return(-1)
    /\ UNCHANGED <<jobTable, nextJobId, job_status_changed, term_pgrp, proc,
                   nextPid>>

\* setpgid(pid, pgid) of the parent (and the same call in the child): it fails
\* when the group no longer exists, and the child stays in the shell's group
GroupExists(pgid) == GroupMembers(pgid) # {}

JoinedGroup(i, pid, pgid) ==
    IF i = 0 THEN pid
    ELSE IF GroupExists(pgid) THEN pgid ELSE shell_pgid

\* one iteration of the fork loop
ep_fork ==
    /\ pc = "ep_fork"
    /\ loc.i < loc.n
    /\ \/ /\ out' = <<[k |-> "err", what |-> "fork failed"]>>
          /\ Return(-1)
          /\ UNCHANGED <<proc, nextPid>>
       \/ LET pid == nextPid
              pgid == IF loc.i = 0 THEN pid ELSE loc.pgid IN
          /\ proc' = [proc EXCEPT ![pid] =
                         Forked(JoinedGroup(loc.i, pid, pgid), loc.i = 0, loc.bg)]
          /\ nextPid' = nextPid + 1
          /\ loc' = [loc EXCEPT !.i = @ + 1, !.pgid = pgid,
                                !.pids = Append(@, pid)]
          /\ out' = <<>>
          /\ UNCHANGED pc
          /\ ret' = NoRet
    /\ UNCHANGED <<jobTable, nextJobId, job_status_changed, term_pgrp,
                   open_pipes>>

\* after the fork loop: the parent closes its pipe ends, then registers a
\* background job or hands the terminal to the group and goes and waits
ep_parent ==
    /\ pc = "ep_fork"
    /\ loc.i = loc.n
    /\ open_pipes' = 0
    /\ IF loc.bg
       THEN /\ RegisterJob(loc.pgid, RUNNING, loc.pids)
            /\ out' = <<addJobNotice(nextJobId, loc.pgid)>>
            /\ Return(0)
            /\ UNCHANGED term_pgrp
       ELSE /\ term_pgrp' = loc.pgid
            /\ pc' = "ep_wait"
            /\ out' = <<>>
            /\ UNCHANGED <<jobTable, nextJobId, loc>>
            /\ ret' = NoRet
    /\ UNCHANGED <<job_status_changed, proc, nextPid>>

\* one return of waitpid(-pgid, &status, WUNTRACED) in the wait loops.  Once it
\* has returned -1 (no child left in the group) every later iteration of the
\* outer for loop gets -1 as well, so that case ends the function.
ep_wait ==
    /\ pc = "ep_wait"
    /\ \/ \E p \in GroupMembers(loc.pgid) :
            /\ WaitStatus(p, TRUE, FALSE) \in {"exited", "signaled"}
            /\ proc' = Collected(proc, p)
            /\ out' = <<>>
            /\ UNCHANGED <<jobTable, nextJobId, term_pgrp, pc, loc>>
            /\ ret' = NoRet
       \/ \E p \in GroupMembers(loc.pgid) :
            /\ WaitStatus(p, TRUE, FALSE) = "stopped"
            /\ proc' = Collected(proc, p)
            /\ RegisterJob(loc.pgid, STOPPED, loc.pids)
            /\ out' = StopLines(jobTable', nextJobId, loc.pgid)
            /\ term_pgrp' = shell_pgid
            /\ Return(0)
       \/ /\ GroupMembers(loc.pgid) = {}
          /\ term_pgrp' = shell_pgid
          /\ out' = <<>>
          /\ Return(0)
          /\ UNCHANGED <<proc, jobTable, nextJobId>>
    /\ UNCHANGED <<job_status_changed, nextPid, open_pipes>>


\* ------------------------------------------------------------------------
\* Built-ins
\* ------------------------------------------------------------------------
\* job ids the user may type: every id handed out so far and one that was not
JobArgs == {NoArg} \cup (1..nextJobId)

\* faulty variant of ResolveJob: an id that matches no job falls back to the
\* most recent job
ResolveJobFallback(tbl, arg) ==
    IF arg # NoArg /\ getJob(tbl, arg) # NoJob THEN getJob(tbl, arg)
    ELSE getMostRecentJob(tbl)

\* the job a built-in acts on: getJob for "%N" / "N", getMostRecentJob otherwise
ResolveJob(tbl, arg) ==
    IF arg # NoArg THEN getJob(tbl, arg) ELSE getMostRecentJob(tbl)

NoSuchJob == [k |-> "err", what |-> "no such job"]

\* builtin_fg up to the kill(SIGCONT)
builtin_fg(arg) ==
    /\ pc = "prompt"
    /\ LET k == ResolveJob(jobTable, arg) IN
       IF k = NoJob
       THEN /\ out' = <<NoSuchJob>>
            /\ Return(1)
            /\ UNCHANGED <<jobTable, term_pgrp, proc>>
       ELSE LET job == jobTable[k] IN
            /\ jobTable' = markJobAsCurrent(jobTable, job.jobId)
            /\ out' = <<[k |-> "fgcmd", id |-> job.jobId]>>
            /\ term_pgrp' = job.pgid
            /\ proc' = IF job.state = STOPPED THEN KillCont(proc, job.pgid)
                       ELSE proc
            /\ pc' = "fg_setrun"
            /\ loc' = [LocInit EXCEPT !.job = job.jobId, !.pgid = job.pgid]
            /\ ret' = NoRet
    /\ UNCHANGED <<nextJobId, job_status_changed, nextPid, open_pipes>>

\* job->state = RUNNING
fg_setrun ==
    /\ pc = "fg_setrun"
    /\ jobTable' = updateJobState(jobTable, loc.job, RUNNING)
    /\ pc' = "fg_wait"
    /\ out' = <<>>
    /\ UNCHANGED <<nextJobId, job_status_changed, term_pgrp, proc, nextPid,
                   open_pipes, loc>>
    /\ ret' = NoRet

\* what fg does to the table when waitpid reports that a member terminated
FgTerminated(tbl, jobId) == removeJob(tbl, jobId)

\* the terminal's foreground group when fg returns
FgRestore == shell_pgid

\* waitpid(-job->pgid, &status, WUNTRACED) returns, and the rest of builtin_fg
fg_wait ==
    /\ pc = "fg_wait"
    /\ \/ \E p \in GroupMembers(loc.pgid) :
            /\ WaitStatus(p, TRUE, FALSE) \in {"exited", "signaled"}
            /\ proc' = Collected(proc, p)
            /\ jobTable' = FgTerminated(jobTable, loc.job)
            /\ out' = <<>>
       \/ \E p \in GroupMembers(loc.pgid) :
            /\ WaitStatus(p, TRUE, FALSE) = "stopped"
            /\ proc' = Collected(proc, p)
            /\ jobTable' = updateJobState(jobTable, loc.job, STOPPED)
            /\ out' = <<StopNotice(jobTable[getJob(jobTable, loc.job)])>>
       \/ /\ GroupMembers(loc.pgid) = {}
          /\ out' = <<>>
          /\ UNCHANGED <<proc, jobTable>>
    /\ term_pgrp' = FgRestore
    /\ Return(0)
    /\ UNCHANGED <<nextJobId, job_status_changed, nextPid, open_pipes>>

\* faulty variant of BgRefused: only a DONE job is refused
BgRefusedDoneOnly(job) == job.state = DONE

\* bg refuses a job that is not STOPPED
BgRefused(job) == job.state # STOPPED

\* builtin_bg up to the kill(SIGCONT)
builtin_bg(arg) ==
    /\ pc = "prompt"
    /\ LET k == ResolveJob(jobTable, arg) IN
       IF k = NoJob
       THEN /\ out' = <<NoSuchJob>>
            /\ Return(1)
            /\ UNCHANGED <<jobTable, proc>>
       ELSE LET job == jobTable[k] IN
            IF BgRefused(job)
            THEN /\ out' = <<[k |-> "err", what |-> "already in background"]>>
                 /\ Return(1)
                 /\ UNCHANGED <<jobTable, proc>>
            ELSE /\ jobTable' = markJobAsCurrent(jobTable, job.jobId)
                 /\ out' = <<[k |-> "bgresume", id |-> job.jobId,
                              sigil |-> Sigil(jobTable'[k])]>>
                 /\ proc' = KillCont(proc, job.pgid)
                 /\ pc' = "bg_setrun"
                 /\ loc' = [LocInit EXCEPT !.job = job.jobId, !.pgid = job.pgid]
                 /\ ret' = NoRet
    /\ UNCHANGED <<nextJobId, job_status_changed, term_pgrp, nextPid,
                   open_pipes>>

\* job->state = RUNNING; return 0
bg_setrun ==
    /\ pc = "bg_setrun"
    /\ jobTable' = updateJobState(jobTable, loc.job, RUNNING)
    /\ out' = <<>>
    /\ Return(0)
    /\ UNCHANGED <<nextJobId, job_status_changed, term_pgrp, proc, nextPid,
                   open_pipes>>

builtin_jobs ==
    /\ pc = "prompt"
    /\ out' = printJobs(jobTable)
    /\ Return(0)
    /\ UNCHANGED <<jobTable, nextJobId, job_status_changed, term_pgrp, proc,
                   nextPid, open_pipes>>

\* ------------------------------------------------------------------------
\* The shell
\* ------------------------------------------------------------------------
Next ==
    \/ check_begin
    \/ check_scan
    \/ ec_not_found
    \/ ec_fork_failed
    \/ \E bg \in BOOLEAN : ec_fork(bg)
    \/ ec_parent
    \/ ec_wait
    \/ \E n \in 2..MaxStages, bg \in BOOLEAN : ep_pipes(n, bg)
    \/ ep_fork
    \/ ep_parent
    \/ ep_wait
    \/ \E arg \in JobArgs : builtin_fg(arg)
    \/ fg_setrun
    \/ fg_wait
    \/ \E arg \in JobArgs : builtin_bg(arg)
    \/ bg_setrun
    \/ builtin_jobs
    \/ sigchld_handler
    \/ \E p \in Pids : ChildSetup(p)
    \/ \E p \in Pids : ChildExit(p)
    \/ \E p \in Pids : ChildKilled(p)
    \/ \E p \in Pids : ChildStop(p)

Spec == Init /\ [][Next]_vars


\* the same shell, with the scheduling the code can rely on: the main flow
\* takes its next step when it can, the handler runs when a status is pending,
\* and the user keeps typing commands (jobs) at the prompt.  Children are under
\* no obligation to exit or stop.
MainStep ==
    \/ check_begin
    \/ check_scan
    \/ ec_parent
    \/ ec_wait
    \/ ep_fork
    \/ ep_parent
    \/ ep_wait
    \/ fg_setrun
    \/ fg_wait
    \/ bg_setrun

FairSpec ==
    /\ Init
    /\ [][Next]_vars
    /\ WF_vars(MainStep)
    /\ WF_vars(sigchld_handler)
    /\ WF_vars(builtin_jobs)

\* ------------------------------------------------------------------------
\* The Job Table on its own: any sequence of addJob / removeJob /
\* markJobAsCurrent calls, the latter two on ids of jobs in the table
\* ------------------------------------------------------------------------
TableIds(tbl) == {tbl[k].jobId : k \in DOMAIN tbl}

tbl_addJob(state) ==
    /\ nextJobId <= MaxTableOps
    /\ jobTable' = addJob(jobTable, nextJobId, nextJobId, state, <<nextJobId>>)
    /\ nextJobId' = nextJobId + 1
    /\ out' = <<addJobNotice(nextJobId, nextJobId)>>
    /\ UNCHANGED <<job_status_changed, term_pgrp, proc, nextPid, open_pipes,
                   pc, loc, ret>>

tbl_removeJob(jobId) ==
    /\ jobId \in TableIds(jobTable)
    /\ jobTable' = removeJob(jobTable, jobId)
    /\ out' = <<>>
    /\ UNCHANGED <<nextJobId, job_status_changed, term_pgrp, proc, nextPid,
                   open_pipes, pc, loc, ret>>

tbl_markJobAsCurrent(jobId) ==
    /\ jobId \in TableIds(jobTable)
    /\ jobTable' = markJobAsCurrent(jobTable, jobId)
    /\ out' = <<>>
    /\ UNCHANGED <<nextJobId, job_status_changed, term_pgrp, proc, nextPid,
                   open_pipes, pc, loc, ret>>

NextTable ==
    \/ \E state \in {RUNNING, STOPPED} : tbl_addJob(state)
    \/ \E jobId \in 1..MaxTableOps : tbl_removeJob(jobId)
    \/ \E jobId \in 1..MaxTableOps : tbl_markJobAsCurrent(jobId)

SpecTable == Init /\ [][NextTable]_vars


\* ------------------------------------------------------------------------
\* parser.cpp and the part of main that reads one line: the tokens of a line
\* are parsed into a pipeline, which main hands to an executor
\* ------------------------------------------------------------------------
MaxTokens == 3

\* the tokens a line is made of: two words, the pipe, two redirections, '&'
Tokens == {"a", "f", "|", ">", "<", "&"}

Lines == UNION {[1..n -> Tokens] : n \in 1..MaxTokens}

ParsedCommand ==
    [args |-> <<>>, inputFile |-> "", outputFile |-> "", errorFile |-> "",
     appendMode |-> FALSE, appendErrorMode |-> FALSE, isBackground |-> FALSE]

ParsedPipeline == [commands |-> <<>>, hasPipes |-> FALSE, isBackground |-> FALSE]

RedirectOps == {">", ">>", "<", "2>", "2>>"}

\* the branches of parseCommandLine that take a file name
Redirect(cmd, op, file) ==
    IF op = ">" THEN [cmd EXCEPT !.outputFile = file, !.appendMode = FALSE]
    ELSE IF op = ">>" THEN [cmd EXCEPT !.outputFile = file, !.appendMode = TRUE]
    ELSE IF op = "<" THEN [cmd EXCEPT !.inputFile = file]
    ELSE IF op = "2>"
         THEN [cmd EXCEPT !.errorFile = file, !.appendErrorMode = FALSE]
         ELSE [cmd EXCEPT !.errorFile = file, !.appendErrorMode = TRUE]

\* commands.push_back(currentCmd) if it has arguments
PushCommand(result, cmd) ==
    IF cmd.args # <<>>
    THEN [result EXCEPT !.commands = Append(@, cmd)]
    ELSE result

\* the loop of parseCommandLine from token i on (1-based), and its epilogue
RECURSIVE ParseFrom(_, _, _, _)
ParseFrom(tokens, i, result, currentCmd) ==
    IF i > Len(tokens) THEN PushCommand(result, currentCmd)
    ELSE IF tokens[i] = "|"
    THEN ParseFrom(tokens, i + 1,
                   IF currentCmd.args # <<>>
                   THEN [PushCommand(result, currentCmd) EXCEPT !.hasPipes = TRUE]
                   ELSE result,
                   ParsedCommand)
    ELSE IF tokens[i] \in RedirectOps
    THEN IF i + 1 <= Len(tokens)
         THEN ParseFrom(tokens, i + 2, result,
                        Redirect(currentCmd, tokens[i], tokens[i + 1]))
         ELSE ParseFrom(tokens, i + 1, result, currentCmd)
    ELSE ParseFrom(tokens, i + 1, result,
                   [currentCmd EXCEPT !.args = Append(@, tokens[i])])

parseCommandLine(tokens) == ParseFrom(tokens, 1, ParsedPipeline, ParsedCommand)

\* main: "Propagate background flag to all commands in pipeline"
Propagate(pipeline) ==
    IF pipeline.isBackground
    THEN [pipeline EXCEPT !.commands =
             [c \in DOMAIN @ |-> [@[c] EXCEPT !.isBackground = TRUE]]]
    ELSE pipeline

\* a line has been read and tokenized
InitParse ==
    /\ jobTable = <<>>
    /\ nextJobId = 1
    /\ job_status_changed = 0
    /\ term_pgrp = shell_pgid
    /\ proc = [p \in Pids |-> NoProc]
    /\ nextPid = 1
    /\ open_pipes = 0
    /\ pc = "parse"
    /\ \E line \in Lines :
          loc = [tokens |-> line, pipeline |-> ParsedPipeline,
                 launch |-> "none", bg |-> FALSE]
    /\ ret = NoRet
    /\ out = <<>>

\* ParsedPipeline pipeline = parseCommandLine(tokens)
main_parse ==
    /\ pc = "parse"
    /\ loc' = [loc EXCEPT !.pipeline = parseCommandLine(loc.tokens)]
    /\ pc' = "dispatch"
    /\ UNCHANGED <<jobTable, nextJobId, job_status_changed, term_pgrp, proc,
                   nextPid, open_pipes, ret, out>>

\* the rest of the loop body: an empty pipeline is skipped, the background
\* flag is propagated, and the pipeline goes to executeCommand or to
\* executePipeline, which read isBackground of the first command
main_dispatch ==
    /\ pc = "dispatch"
    /\ LET pipeline == Propagate(loc.pipeline) IN
       IF pipeline.commands = <<>>
       THEN loc' = [loc EXCEPT !.launch = "none"]
       ELSE loc' = [loc EXCEPT
                       !.pipeline = pipeline,
                       !.launch = IF pipeline.hasPipes THEN "executePipeline"
                                  ELSE "executeCommand",
                       !.bg = pipeline.commands[1].isBackground]
    /\ pc' = "launch"
    /\ UNCHANGED <<jobTable, nextJobId, job_status_changed, term_pgrp, proc,
                   nextPid, open_pipes, ret, out>>

NextParse ==
    \/ main_parse
    \/ main_dispatch

SpecParse == InitParse /\ [][NextParse]_vars


\* ------------------------------------------------------------------------
\* One launch seen from the children: the code each child runs between fork
\* and execve (process group, signal dispositions, pipe wiring, redirections,
\* path lookup, execve), the status it terminates with, and the value the
\* executor returns.  Stage loc.focus has an arbitrary command (redirections
\* present or not, a lookup, an open or an execve that fails or not); the
\* other stages have a plain command for which everything succeeds.  Pids are
\* 1..n in stage order, so the group of the job is 1.
\* ------------------------------------------------------------------------
Signals == {"SIGINT", "SIGQUIT", "SIGTSTP", "SIGTTIN", "SIGTTOU", "SIGCHLD"}

\* the dispositions init_shell installs, which a forked child inherits
ShellDispositions ==
    [s \in Signals |->
        IF s \in {"SIGQUIT", "SIGTTIN", "SIGTTOU"} THEN "ignore" ELSE "handler"]

\* the statuses a program that was started can exit with by itself
ExitCodes == {0, 3}

Streams == {"in", "out", "err"}

\* a command of the launch: which redirections it has, and what findInPath,
\* the first open() of setupRedirections and execve will do for it
Commands ==
    [redirs : SUBSET Streams, found : BOOLEAN, openFails : BOOLEAN,
     execFails : BOOLEAN]

PlainCommand ==
    [redirs |-> {}, found |-> TRUE, openFails |-> FALSE, execFails |-> FALSE]

Cmd(p) == IF p = loc.focus THEN loc.cmd ELSE PlainCommand

\* both ends of every pipe of a pipeline of n stages (pipes 0 .. n-2)
PipeEnds(n) == (0..(n - 2)) \X {"r", "w"}

Tty == <<"tty">>

File(stream) == <<"file", stream>>

\* a child right after fork
Child(n) ==
    [pos |-> "setpgid", st |-> "child", execd |-> FALSE, code |-> 0,
     pgid |-> shell_pgid,
     sig |-> ShellDispositions, in |-> Tty, out |-> Tty, err |-> Tty,
     fds |-> PipeEnds(n), reaped |-> FALSE]

\* exit(code) in the child
Exit(child, code) ==
    [child EXCEPT !.pos = "done", !.st = "exited", !.code = code]

InitChild ==
    /\ jobTable = <<>>
    /\ nextJobId = 1
    /\ job_status_changed = 0
    /\ term_pgrp = shell_pgid
    /\ proc = <<>>
    /\ nextPid = 1
    /\ open_pipes = 0
    /\ pc = "launch"
    /\ \E n \in 1..MaxStages, cmd \in Commands, bg \in BOOLEAN :
       \E focus \in 1..n :
          loc = [kind |-> IF n = 1 THEN "executeCommand" ELSE "executePipeline",
                 n |-> n, focus |-> focus, cmd |-> cmd, bg |-> bg]
    /\ ret = NoRet
    /\ out = <<>>

\* findInPath fails in executeCommand: nothing is forked
launch_not_found ==
    /\ pc = "launch"
    /\ loc.kind = "executeCommand"
    /\ ~loc.cmd.found
    /\ out' = <<[k |-> "err", what |-> "command not found"]>>
    /\ ret' = <<127>>
    /\ pc' = "check"
    /\ UNCHANGED <<jobTable, nextJobId, job_status_changed, term_pgrp, proc,
                   nextPid, open_pipes, loc>>

\* the forks (all of them succeed here) and the parent's branch after them:
\* a background job is registered and the executor returns, a foreground job
\* gets the terminal and the executor goes and waits
launch_fork ==
    /\ pc = "launch"
    /\ loc.kind = "executePipeline" \/ loc.cmd.found
    /\ proc' = [p \in 1..loc.n |-> Child(loc.n)]
    /\ nextPid' = loc.n + 1
    /\ IF loc.bg
       THEN /\ RegisterJob(1, RUNNING, [p \in 1..loc.n |-> p])
            /\ out' = <<addJobNotice(nextJobId, 1)>>
            /\ ret' = <<0>>
            /\ pc' = "check"
            /\ UNCHANGED term_pgrp
       ELSE /\ term_pgrp' = 1
            /\ out' = <<>>
            /\ pc' = "wait"
            /\ UNCHANGED <<jobTable, nextJobId, ret>>
    /\ UNCHANGED <<job_status_changed, open_pipes, loc>>

\* a child step changes the child's own entry of proc and nothing else,
\* except the terminal's foreground group where stated
ChildStep(p, child) ==
    /\ proc' = [proc EXCEPT ![p] = child]
    /\ UNCHANGED <<jobTable, nextJobId, job_status_changed, nextPid,
                   open_pipes, pc, loc, ret, out>>

\* setpgid, and tcsetpgrp in the first child of a foreground job
child_setpgid(p) ==
    /\ proc[p].pos = "setpgid"
    /\ ChildStep(p, [proc[p] EXCEPT !.pos = "signals", !.pgid = 1])
    /\ term_pgrp' = IF ChildTakesTerminal(p = 1, loc.bg) THEN p ELSE term_pgrp

\* faulty variant of DefaultDispositions: SIGCHLD keeps the shell's handler
DefaultDispositionsButChld ==
    [s \in Signals |-> IF s = "SIGCHLD" THEN "handler" ELSE "default"]

\* the six signal(..., SIG_DFL) calls
DefaultDispositions == [s \in Signals |-> "default"]

child_signals(p) ==
    /\ proc[p].pos = "signals"
    /\ ChildStep(p, [proc[p] EXCEPT
                        !.sig = DefaultDispositions,
                        !.pos = IF loc.kind = "executePipeline" THEN "dup2"
                                ELSE "redirect"])
    /\ UNCHANGED term_pgrp

\* faulty variant of Wired: a stage writes to the pipe it reads from
WiredSamePipe(child, p, n) ==
    [child EXCEPT !.in = IF p > 1 THEN <<"pipe", p - 2, "r">> ELSE @,
                  !.out = IF p < n THEN <<"pipe", p - 2, "w">> ELSE @]

\* the two dup2 calls of stage i = p - 1: read end of pipe i-1, write end of
\* pipe i
Wired(child, p, n) ==
    [child EXCEPT !.in = IF p > 1 THEN <<"pipe", p - 2, "r">> ELSE @,
                  !.out = IF p < n THEN <<"pipe", p - 1, "w">> ELSE @]

child_dup2(p) ==
    /\ proc[p].pos = "dup2"
    /\ ChildStep(p, [Wired(proc[p], p, loc.n) EXCEPT !.pos = "close"])
    /\ UNCHANGED term_pgrp

\* the loop that closes both ends of every pipe
child_close(p) ==
    /\ proc[p].pos = "close"
    /\ ChildStep(p, [proc[p] EXCEPT !.fds = {}, !.pos = "redirect"])
    /\ UNCHANGED term_pgrp

\* setupRedirections: exit(1) when an open fails, else the streams that have
\* a redirection are bound to their files
Redirected(child, cmd) ==
    IF cmd.redirs # {} /\ cmd.openFails THEN Exit(child, 1)
    ELSE [child EXCEPT
             !.in = IF "in" \in cmd.redirs THEN File("in") ELSE @,
             !.out = IF "out" \in cmd.redirs THEN File("out") ELSE @,
             !.err = IF "err" \in cmd.redirs THEN File("err") ELSE @,
             !.pos = IF loc.kind = "executePipeline" THEN "find" ELSE "execve"]

child_redirect(p) ==
    /\ proc[p].pos = "redirect"
    /\ ChildStep(p, Redirected(proc[p], Cmd(p)))
    /\ UNCHANGED term_pgrp

\* faulty variant of Located: a stage that is not found exits with 1
LocatedExit1(child, cmd) ==
    IF ~cmd.found THEN Exit(child, 1) ELSE [child EXCEPT !.pos = "execve"]

\* findInPath in a pipeline child: exit(127) when the path is empty
Located(child, cmd) ==
    IF ~cmd.found THEN Exit(child, 127) ELSE [child EXCEPT !.pos = "execve"]

child_findInPath(p) ==
    /\ proc[p].pos = "find"
    /\ ChildStep(p, Located(proc[p], Cmd(p)))
    /\ UNCHANGED term_pgrp

\* execve: the program runs, or exit(1)
child_execve(p) ==
    /\ proc[p].pos = "execve"
    /\ ChildStep(p, IF Cmd(p).execFails THEN Exit(proc[p], 1)
                    ELSE [proc[p] EXCEPT !.pos = "done", !.st = "program",
                                         !.execd = TRUE])
    /\ UNCHANGED term_pgrp

\* the program that was started exits by itself or is killed by a signal
TermSignals == {9}

program_exit(p) ==
    /\ proc[p].st = "program"
    /\ \E code \in ExitCodes : ChildStep(p, Exit(proc[p], code))
    /\ UNCHANGED term_pgrp

program_killed(p) ==
    /\ proc[p].st = "program"
    /\ \E sig \in TermSignals :
          ChildStep(p, [proc[p] EXCEPT !.st = "signaled", !.code = sig])
    /\ UNCHANGED term_pgrp

\* one waitpid of the foreground wait that reports a terminated child:
\* executeCommand leaves its loop, restores the terminal and returns 0;
\* executePipeline goes on waiting
launch_wait ==
    /\ pc = "wait"
    /\ \E p \in DOMAIN proc :
          /\ proc[p].st \in {"exited", "signaled"}
          /\ ~proc[p].reaped
          /\ proc' = [proc EXCEPT ![p].reaped = TRUE]
    /\ IF loc.kind = "executeCommand"
       THEN /\ term_pgrp' = shell_pgid
            /\ ret' = <<0>>
            /\ pc' = "check"
       ELSE UNCHANGED <<term_pgrp, ret, pc>>
    /\ UNCHANGED <<jobTable, nextJobId, job_status_changed, nextPid,
                   open_pipes, loc, out>>

\* waitpid finds no child left in the group: executePipeline restores the
\* terminal and returns 0
launch_return ==
    /\ pc = "wait"
    /\ loc.kind = "executePipeline"
    /\ \A p \in DOMAIN proc : proc[p].reaped
    /\ term_pgrp' = shell_pgid
    /\ ret' = <<0>>
    /\ pc' = "check"
    /\ UNCHANGED <<jobTable, nextJobId, job_status_changed, proc, nextPid,
                   open_pipes, loc, out>>

NextChild ==
    \/ launch_not_found
    \/ launch_fork
    \/ launch_wait
    \/ launch_return
    \/ \E p \in DOMAIN proc : child_setpgid(p)
    \/ \E p \in DOMAIN proc : child_signals(p)
    \/ \E p \in DOMAIN proc : child_dup2(p)
    \/ \E p \in DOMAIN proc : child_close(p)
    \/ \E p \in DOMAIN proc : child_redirect(p)
    \/ \E p \in DOMAIN proc : child_findInPath(p)
    \/ \E p \in DOMAIN proc : child_execve(p)
    \/ \E p \in DOMAIN proc : program_exit(p)
    \/ \E p \in DOMAIN proc : program_killed(p)

SpecChild == InitChild /\ [][NextChild]_vars


\* ------------------------------------------------------------------------
\* Properties
\* ------------------------------------------------------------------------
Range(f) == {f[k] : k \in DOMAIN f}

CurrentCount(tbl) == Cardinality({k \in DOMAIN tbl : tbl[k].is_current})

Terminated(pr, p) == pr[p].st \in {"exited", "signaled", "reaped"}

\* C1: after any sequence of addJob / removeJob / markJobAsCurrent calls (on
\* ids of jobs in the table) that leaves the table non-empty, exactly one job
\* has is_current = true.
C1_ExactlyOneCurrent ==
    Len(jobTable) > 0 => CurrentCount(jobTable) = 1

\* C2: whenever the main loop is at the prompt and the table holds a job,
\* exactly one job has is_current = true.
C2_OneCurrentAtPrompt ==
    (pc = "prompt" /\ Len(jobTable) > 0) => CurrentCount(jobTable) = 1

\* C3: if the main loop keeps returning to the prompt, a job in the table all
\* of whose processes have terminated is eventually erased from the table.
JobTerminated(j) ==
    /\ j \in TableIds(jobTable)
    /\ \A p \in Range(jobTable[getJob(jobTable, j)].pids) : Terminated(proc, p)

C3_TerminatedJobIsErased ==
    ([]<>(pc = "prompt")) =>
        \A j \in 1..MaxProcs :
            [](JobTerminated(j) => <>(j \notin TableIds(jobTable)))

\* C4: a process of the job the executor is running in the foreground that has
\* stopped still has its stop status waiting for the executor's waitpid, which
\* then abandons the wait and registers the job as Stopped: no stop of a
\* foreground process goes unregistered, wherever the Reaper runs.
ForegroundProcs ==
    IF pc \in {"ec_parent", "ec_wait"} /\ ~loc.bg THEN {loc.pid}
    ELSE IF pc \in {"ep_fork", "ep_wait"} /\ ~loc.bg THEN Range(loc.pids)
    ELSE {}

C4_ForegroundStopIsRegistered ==
    \A p \in ForegroundProcs :
        proc[p].st = "stopped" => WaitStatus(p, TRUE, FALSE) = "stopped"

\* C5: fg returns to the read loop only in a step in which the job was observed
\* terminated (every process of the job has terminated) or a stop of one of its
\* processes was observed, and the terminal then belongs to the shell's group.
FgReturns == pc \in {"fg_setrun", "fg_wait"} /\ pc' = "check"

FgJobPids == Range(jobTable[getJob(jobTable, loc.job)].pids)

C5_FgBlocksAndRestores ==
    [][FgReturns =>
        /\ term_pgrp' = shell_pgid
        /\ \/ \A p \in FgJobPids : Terminated(proc', p)
           \/ \E p \in FgJobPids :
                 /\ proc[p].ws = "stopped"
                 /\ proc'[p] = [proc[p] EXCEPT !.ws = "none"]]_vars

\* C6: whenever an executor or a built-in returns to the read loop, by any
\* exit path, the terminal's foreground process group is the shell's own.
C6_TerminalRestoredOnReturn ==
    ret # NoRet => term_pgrp = shell_pgid

\* C7: a run of sigchld_handler changes only the state field of rows already
\* in the table and job_status_changed: no row is added or erased, no jobId,
\* pgid, pids, is_current or notified changes, the terminal keeps its
\* foreground group, the main flow is where it was, and nothing is printed.
HandlerFrame ==
    /\ Len(jobTable') = Len(jobTable)
    /\ \A k \in DOMAIN jobTable :
          jobTable'[k] = [jobTable[k] EXCEPT !.state = jobTable'[k].state]
    /\ UNCHANGED <<nextJobId, term_pgrp, open_pipes, pc, loc>>
    /\ out' = <<>>

C7_ReaperFrame == [][sigchld_handler => HandlerFrame]_vars

C7_Witness ==
    /\ job_status_changed = 1
    /\ \E k \in DOMAIN jobTable :
          /\ jobTable[k].state = DONE
          /\ proc[jobTable[k].pgid].st = "reaped"

\* C8: for every process of a registered job whose status a run of the Reaper
\* collects, the job's state after the run is the one that belongs to a status
\* collected for that job (Done / Stopped / Running) and the flag is set.
C8_ReaperUpdatesOwningJob ==
    [][sigchld_handler =>
        \A k \in DOMAIN jobTable :
            LET mine == Pending \cap Range(jobTable[k].pids) IN
            mine # {} =>
                /\ jobTable'[k].state \in
                      {HandlerState(WaitStatus(q, TRUE, TRUE)) : q \in mine}
                /\ job_status_changed' = 1]_vars

\* C9: a Done notice is printed for a job only in the step that erases it, at
\* most once in that step, and job ids are never handed out again: so no job
\* gets a second Done notice, and no job in the table has notified = true.
DoneNotices == {i \in DOMAIN out : out[i].k = "done"}

C9_DoneOnceAndErased ==
    /\ \A k \in DOMAIN jobTable :
          /\ ~jobTable[k].notified
          /\ jobTable[k].jobId < nextJobId
    /\ \A i \in DoneNotices :
          /\ out[i].id \notin TableIds(jobTable)
          /\ \A m \in DoneNotices : out[m].id = out[i].id => m = i

C9_Witness == DoneNotices # {} /\ Len(jobTable) > 0

\* C10: bg on a job that is not Stopped returns 1 and changes neither the
\* table, nor any process (no SIGCONT), nor the terminal's foreground group.
BgOnNotStopped(arg) ==
    /\ pc = "prompt"
    /\ ResolveJob(jobTable, arg) # NoJob
    /\ jobTable[ResolveJob(jobTable, arg)].state # STOPPED
    /\ builtin_bg(arg)

C10_BgRefusesNotStopped ==
    [][\A arg \in JobArgs :
          BgOnNotStopped(arg) =>
              /\ ret' = <<1>>
              /\ pc' = "check"
              /\ UNCHANGED <<jobTable, nextJobId, proc, term_pgrp>>]_vars

C10_Witness ==
    /\ ret = <<1>>
    /\ out = <<[k |-> "err", what |-> "already in background"]>>
    /\ \E k \in DOMAIN jobTable : jobTable[k].state = RUNNING

\* the job at index k of tbl is the only one with is_current = true
OnlyCurrent(tbl, k) == \A m \in DOMAIN tbl : tbl[m].is_current <=> (m = k)

\* C11: bg on a Stopped job (explicit id or the most recent job) makes that
\* job the only current one, resumes every stopped process of its group, and
\* returns 0 with that same entry in state Running; no step of bg collects a
\* wait status or changes the terminal's foreground group.
BgOnStopped(arg) ==
    /\ pc = "prompt"
    /\ ResolveJob(jobTable, arg) # NoJob
    /\ jobTable[ResolveJob(jobTable, arg)].state = STOPPED
    /\ builtin_bg(arg)

Resumed(pr, pgid) ==
    [p \in Pids |->
        IF pr[p].pgid = pgid /\ pr[p].st = "stopped"
        THEN [st |-> "running", ws |-> "continued", pgid |-> pgid]
        ELSE pr[p]]

C11_BgResumesStopped ==
    [][/\ \A arg \in JobArgs :
             BgOnStopped(arg) =>
                 LET k == ResolveJob(jobTable, arg) IN
                 /\ Len(jobTable') = Len(jobTable)
                 /\ jobTable'[k].jobId = jobTable[k].jobId
                 /\ OnlyCurrent(jobTable', k)
                 /\ proc' = Resumed(proc, jobTable[k].pgid)
                 /\ term_pgrp' = term_pgrp
                 /\ pc' = "bg_setrun"
                 /\ loc'.job = jobTable[k].jobId
       /\ bg_setrun =>
             LET k == getJob(jobTable, loc.job) IN
             /\ k # NoJob
             /\ jobTable' = [jobTable EXCEPT ![k].state = RUNNING]
             /\ OnlyCurrent(jobTable', k)
             /\ ret' = <<0>>
             /\ pc' = "check"
             /\ UNCHANGED <<proc, term_pgrp>>]_vars

C11_Witness ==
    /\ pc = "bg_setrun"
    /\ Len(jobTable) = 2
    /\ \E p \in Pids : proc[p].ws = "continued"

\* C12: fg or bg given an id that no job in the table has, or no id while the
\* table is empty, writes "no such job", returns 1 to the read loop and
\* changes neither the table nor nextJobId nor any process nor the terminal's
\* foreground group.
NoSuchTarget(arg) ==
    \/ arg # NoArg /\ arg \notin TableIds(jobTable)
    \/ arg = NoArg /\ Len(jobTable) = 0

C12_NoSuchJob ==
    [][\A arg \in JobArgs :
          (pc = "prompt" /\ NoSuchTarget(arg)
              /\ (builtin_fg(arg) \/ builtin_bg(arg))) =>
              /\ out' = <<NoSuchJob>>
              /\ ret' = <<1>>
              /\ pc' = "check"
              /\ UNCHANGED <<jobTable, nextJobId, proc, term_pgrp>>]_vars

C12_Witness ==
    /\ ret = <<1>>
    /\ out = <<NoSuchJob>>
    /\ Len(jobTable) > 0

\* C13: the step in which a background launch (one command or a pipeline)
\* returns appends one row with a fresh id, the job's pgid and state Running,
\* the listing of the table it leaves has a Running line ending in " &" for
\* that row, and the step collects no wait status; a jobs listing has such a
\* line for every Running row.
BgLaunchReturns ==
    /\ pc \in {"ec_parent", "ep_fork"}
    /\ loc.bg
    /\ ec_parent \/ ep_parent

ListedRunning(lines, jobId) ==
    \E i \in DOMAIN lines :
        /\ lines[i].k = "list"
        /\ lines[i].id = jobId
        /\ lines[i].state = RUNNING
        /\ lines[i].amp

C13_BgLaunchRegistersRunning ==
    [][/\ BgLaunchReturns =>
             LET new == jobTable'[Len(jobTable')] IN
             /\ Len(jobTable') = Len(jobTable) + 1
             /\ new.jobId \notin TableIds(jobTable)
             /\ new.pgid = (IF pc = "ec_parent" THEN loc.pid ELSE loc.pgid)
             /\ new.state = RUNNING
             /\ ListedRunning(printJobs(jobTable'), new.jobId)
             /\ proc' = proc
             /\ ret' = <<0>>
       /\ builtin_jobs =>
             \A k \in DOMAIN jobTable :
                 jobTable[k].state = RUNNING =>
                     ListedRunning(out', jobTable[k].jobId)]_vars

C13_Witness ==
    /\ ret = <<0>>
    /\ Len(out) = 2
    /\ \A i \in DOMAIN out : out[i].k = "list" /\ out[i].amp

\* C14: no step of a background launch (the fork, the parent's branch, the
\* pipe and fork loops of a pipeline) changes the terminal's foreground group,
\* and none creates a child that is going to call tcsetpgrp.
BgLaunchStep ==
    \/ /\ pc = "prompt"
       /\ pc' \in {"ec_parent", "ep_fork"}
       /\ loc'.bg
    \/ /\ pc \in {"ec_parent", "ep_fork"}
       /\ loc.bg
       /\ ec_parent \/ ep_fork \/ ep_parent

C14_BgLaunchKeepsTerminal ==
    [][BgLaunchStep =>
          /\ term_pgrp' = term_pgrp
          /\ \A p \in Pids :
                proc'[p].st = "forked" => proc[p].st = "forked"]_vars

C14_Witness ==
    /\ out # <<>>
    /\ out[1].k = "created"
    /\ Len(jobTable) > 0
    /\ jobTable[Len(jobTable)].state = RUNNING
    /\ Len(jobTable[Len(jobTable)].pids) = MaxStages

\* C15: every successful fork of executePipeline appends the child's pid to
\* the member list and leaves the child in the group of the first stage; after
\* the loop there were N - 1 pipes and there are N distinct member pids, and a
\* job registered for the pipeline has that list and the first pid as pgid.
IsPipelineJob(job) ==
    /\ job.pids = loc.pids
    /\ job.pgid = loc.pids[1]

C15_PipelineTopology ==
    [][/\ (ep_fork /\ pc' = "ep_fork") =>
             /\ loc'.pids = Append(loc.pids, nextPid)
             /\ loc'.pgid = loc'.pids[1]
             /\ proc'[nextPid].pgid = loc'.pids[1]
       /\ (pc = "ep_fork" /\ ep_parent) =>
             /\ open_pipes = loc.n - 1
             /\ Len(loc.pids) = loc.n
             /\ Cardinality(Range(loc.pids)) = loc.n
             /\ loc.bg => IsPipelineJob(jobTable'[Len(jobTable')])
       /\ (ep_wait /\ Len(jobTable') > Len(jobTable)) =>
             IsPipelineJob(jobTable'[Len(jobTable')])]_vars

\* C16: across addJob calls interleaved with removals nextJobId never goes
\* down, an addJob assigns the id nextJobId and moves nextJobId past it, every
\* id in the table is below nextJobId, and the ids in the table are strictly
\* increasing in insertion order (so no two rows share an id).
IdsIncreasing(tbl) ==
    \A i, j \in DOMAIN tbl : i < j => tbl[i].jobId < tbl[j].jobId

C16_JobIdsIncrease ==
    [][/\ nextJobId' >= nextJobId
       /\ Len(jobTable') > Len(jobTable) =>
             /\ jobTable'[Len(jobTable')].jobId = nextJobId
             /\ nextJobId' > nextJobId
       /\ \A k \in DOMAIN jobTable' : jobTable'[k].jobId < nextJobId'
       /\ IdsIncreasing(jobTable')]_vars

C16_Witness ==
    /\ Len(jobTable) = 2
    /\ jobTable[1].jobId = 2
    /\ jobTable[2].jobId = MaxTableOps

\* C17: removeJob of a job that is current, with other jobs left, keeps
\* exactly the other rows and leaves the most recently inserted of them (the
\* last row) current, so at least one job is current.
RemovesCurrent(jobId) ==
    /\ tbl_removeJob(jobId)
    /\ Len(jobTable) > 1
    /\ jobTable[getJob(jobTable, jobId)].is_current

C17_RemoveCurrentPromotesLast ==
    [][\A jobId \in 1..MaxTableOps :
          RemovesCurrent(jobId) =>
              LET rest == TableIds(jobTable) \ {jobId}
                  last == jobTable'[Len(jobTable')] IN
              /\ TableIds(jobTable') = rest
              /\ \A j \in rest : j <= last.jobId
              /\ last.is_current
              /\ CurrentCount(jobTable') >= 1]_vars

C17_Witness ==
    /\ Len(jobTable) = 2
    /\ nextJobId = 4
    /\ jobTable[2].jobId = 2
    /\ jobTable[2].is_current
    /\ ~jobTable[1].is_current

\* C18: getMostRecentJob gives NoJob on an empty table, a job with
\* is_current = true when there is one, and the last job of the table when no
\* job is current; fg and bg with no argument go on with exactly that job.
IsMostRecent(tbl, r) ==
    IF Len(tbl) = 0 THEN r = NoJob
    ELSE IF \E k \in DOMAIN tbl : tbl[k].is_current
         THEN r \in DOMAIN tbl /\ tbl[r].is_current
         ELSE r = Len(tbl)

ActsOnJob == pc = "prompt" /\ pc' \in {"fg_setrun", "bg_setrun"}

LiveRows(tbl) == {k \in DOMAIN tbl : tbl[k].state # DONE}

ListingOf(tbl, lines) ==
    /\ Len(lines) = Cardinality(LiveRows(tbl))
    /\ \A i \in DOMAIN lines :
          \E k \in LiveRows(tbl) :
              /\ Cardinality({m \in LiveRows(tbl) : m < k}) = i - 1
              /\ lines[i].k = "list"
              /\ lines[i].id = tbl[k].jobId
              /\ lines[i].sigil = (IF tbl[k].is_current THEN "+" ELSE "-")
              /\ lines[i].state = tbl[k].state
              /\ lines[i].amp = (tbl[k].state = RUNNING)

AfterLaunches(tbl) ==
    /\ Len(tbl) > 0
    /\ \A k \in DOMAIN tbl : tbl[k].state = RUNNING
    /\ OnlyCurrent(tbl, Len(tbl))

C19_JobsListing ==
    [][builtin_jobs =>
          /\ ListingOf(jobTable, out')
          /\ AfterLaunches(jobTable) =>
                /\ Len(out') = Len(jobTable)
                /\ \A i \in DOMAIN out' :
                      /\ out'[i].state = RUNNING
                      /\ out'[i].amp
                      /\ out'[i].sigil = "+" <=> i = Len(out')]_vars

C19_Witness ==
    /\ ret = <<0>>
    /\ out # <<>>
    /\ out[1].k = "list"
    /\ Len(out) < Len(jobTable)

\* C20: a background launch writes the creation notice of its job and nothing
\* else; a foreground executor that registers a job as Stopped writes the stop
\* notice of that job and nothing else, so no creation notice.
RegistersStopped ==
    /\ ec_wait \/ ep_wait
    /\ Len(jobTable') > Len(jobTable)

C20_CreationNoticeOnlyInBackground ==
    [][/\ BgLaunchReturns =>
             out' = <<addJobNotice(nextJobId,
                                   jobTable'[Len(jobTable')].pgid)>>
       /\ RegistersStopped =>
             /\ Len(out') = 1
             /\ out'[1].k = "stopped"
             /\ out'[1].id = nextJobId]_vars

\* C21: every Done notice, stop notice and bg-resume notice carries '+' when
\* the job it reports is current and '-' when it is not.  The job of a Done
\* notice is the row the step erases; the job of the other notices is the row
\* as the step leaves it.
ReportedJob(id) ==
    IF id \in TableIds(jobTable')
    THEN jobTable'[getJob(jobTable', id)]
    ELSE jobTable[getJob(jobTable, id)]

C21_NoticeSigils ==
    [][\A i \in DOMAIN out' :
          out'[i].k \in {"done", "stopped", "bgresume"} =>
              out'[i].sigil =
                  (IF ReportedJob(out'[i].id).is_current THEN "+" ELSE "-")]_vars

\* C22: when the Reaper, running while the main loop is about to call
\* check_job_status_changes, marks a job Done or Stopped and sets the flag,
\* the run of check_job_status_changes on the table it leaves writes a Done
\* notice, respectively a Stopped notice, for that job.
ReaperMarks(k, state) ==
    /\ sigchld_handler
    /\ pc = "check"
    /\ jobTable[k].state # state
    /\ jobTable'[k].state = state
    /\ job_status_changed' = 1

Notifies(lines, kind, jobId) ==
    \E i \in DOMAIN lines : lines[i].k = kind /\ lines[i].id = jobId

C22_SyncNotifiesStopped ==
    [][\A k \in DOMAIN jobTable :
          /\ ReaperMarks(k, DONE) =>
                Notifies(SyncNotices(jobTable'), "done", jobTable[k].jobId)
          /\ ReaperMarks(k, STOPPED) =>
                Notifies(SyncNotices(jobTable'), "stopped",
                         jobTable[k].jobId)]_vars

\* C23: a line whose last token is '&' is parsed into a pipeline with
\* isBackground = true and no '&' among the arguments of its commands, and
\* main launches it in the background; a line without '&' is parsed into a
\* pipeline with isBackground = false and launched in the foreground.
EndsWithAmp(tokens) == tokens[Len(tokens)] = "&"

HasAmpArg(pipeline) ==
    \E c \in DOMAIN pipeline.commands : "&" \in Range(pipeline.commands[c].args)

C23_AmpersandMeansBackground ==
    pc \in {"dispatch", "launch"} =>
        /\ EndsWithAmp(loc.tokens) =>
              /\ loc.pipeline.isBackground
              /\ ~HasAmpArg(loc.pipeline)
              /\ (pc = "launch" /\ loc.launch # "none") => loc.bg
        /\ "&" \notin Range(loc.tokens) =>
              /\ ~loc.pipeline.isBackground
              /\ pc = "launch" => ~loc.bg

\* C27: the step in which a pipe() or a fork() fails (in executePipeline, for
\* a foreground or a background pipeline, or in executeCommand) writes an
\* error, returns -1 to the read loop, creates no process, and leaves the
\* table and nextJobId as they were.
CreationFails ==
    \/ ec_fork_failed
    \/ ep_fork /\ pc' = "check"
    \/ \E n \in 2..MaxStages, bg \in BOOLEAN : ep_pipes(n, bg) /\ pc' = "check"

C27_CreationFailureRecordsNoJob ==
    [][CreationFails =>
          /\ Len(out') = 1
          /\ out'[1].k = "err"
          /\ ret' = <<-1>>
          /\ UNCHANGED <<jobTable, nextJobId, proc, nextPid>>]_vars

C27_Witness ==
    /\ ret = <<-1>>
    /\ out = <<[k |-> "err", what |-> "fork failed"]>>
    /\ nextPid = 2
    /\ proc[1].st # "none"
    /\ jobTable = <<>>

\* C30: fg returns from its wait only in a step in which it observed a stop
\* or after which no process of the job's group remains, and it does not
\* remove the job from the table while a member of the job has not terminated.
FgWaitReturns == fg_wait /\ pc' = "check"

FgStopObserved ==
    \E p \in GroupMembers(loc.pgid) :
        proc[p].ws = "stopped" /\ proc'[p].ws = "none"

C30_FgWaitsForAllMembers ==
    [][FgWaitReturns =>
          /\ \/ FgStopObserved
             \/ \A p \in Pids :
                   proc'[p].st \in {"none", "reaped"} \/ proc'[p].pgid # loc.pgid
          /\ loc.job \notin TableIds(jobTable') =>
                \A p \in FgJobPids : Terminated(proc', p)]_vars

\* C24: when executePipeline returns from a foreground pipeline whose last
\* stage exited, the value it returns is the exit status of that stage.
PipelineReturned ==
    /\ pc = "check"
    /\ loc.kind = "executePipeline"
    /\ ~loc.bg

C24_PipelineReturnsLastStatus ==
    (PipelineReturned /\ proc[loc.n].st = "exited") =>
        ret = <<proc[loc.n].code>>

\* C25: when executeCommand returns from a foreground command, the value it
\* returns is 127 if the executable was not found, the child's exit status if
\* the child exited, and 128 + the signal number if a signal killed it.
CommandReturned ==
    /\ pc = "check"
    /\ loc.kind = "executeCommand"
    /\ ~loc.bg

C25_CommandReturnsStatus ==
    CommandReturned =>
        IF ~loc.cmd.found THEN ret = <<127>>
        ELSE /\ proc[1].st = "exited" => ret = <<proc[1].code>>
             /\ proc[1].st = "signaled" => ret = <<128 + proc[1].code>>

\* C26.  What the claim says of stage p once the launch has started: a child
\* exists for it and, when the child is done with its own code, it has either
\* started the program or exited with 1 (a redirection target that cannot be
\* opened), 127 (an executable that cannot be located) or 1 (an execve that
\* fails); and the step in which a child exits this way changes no other
\* child and not the position of the shell.
OpenFails(cmd) == cmd.redirs # {} /\ cmd.openFails

FailedWith(child, code) ==
    child.st = "exited" /\ ~child.execd /\ child.code = code

ChildOutcome(child, cmd) ==
    child.pos = "done" =>
        IF OpenFails(cmd) THEN FailedWith(child, 1)
        ELSE IF ~cmd.found THEN FailedWith(child, 127)
        ELSE IF cmd.execFails THEN FailedWith(child, 1)
        ELSE child.execd

FailureIsLocal ==
    \A p \in DOMAIN proc :
        (p \in DOMAIN proc' /\ proc[p].st = "child" /\ proc'[p].st = "exited") =>
            /\ \A q \in DOMAIN proc : q # p => proc'[q] = proc[q]
            /\ pc' = pc

C26_ChildFailureStatus ==
    [][/\ pc' # "launch" =>
             \A p \in 1..loc'.n :
                 /\ p \in DOMAIN proc'
                 /\ ChildOutcome(proc'[p], Cmd(p)')
       /\ FailureIsLocal]_vars

\* C26 as amended: the same for every stage of a pipeline and for a single
\* command whose executable is found; for a single command whose executable
\* is not found no child is created and executeCommand returns 127.
C26_ChildFailureStatusAmended ==
    [][/\ pc' # "launch" =>
             IF loc'.kind = "executeCommand" /\ ~loc'.cmd.found
             THEN proc' = <<>> /\ ret' = <<127>>
             ELSE \A p \in 1..loc'.n :
                     /\ p \in DOMAIN proc'
                     /\ ChildOutcome(proc'[p], Cmd(p)')
       /\ FailureIsLocal]_vars

C26_Witness ==
    /\ pc = "wait"
    /\ \E p, q \in DOMAIN proc :
          /\ FailedWith(proc[p], 127)
          /\ proc[q].st = "program"

\* C28: a child that has replaced its program image did so with the default
\* disposition for each of SIGINT, SIGQUIT, SIGTSTP, SIGTTIN, SIGTTOU and
\* SIGCHLD (the dispositions do not change after the execve).
C28_DefaultDispositionsAtExec ==
    \A p \in DOMAIN proc :
        proc[p].execd => \A s \in Signals : proc[p].sig[s] = "default"

C28_Witness ==
    /\ loc.kind = "executePipeline"
    /\ \A p \in DOMAIN proc : proc[p].execd
    /\ Len(proc) = MaxStages

\* C29: in a pipeline child the pipe descriptors are closed only once the
\* pipe ends are attached to the standard streams, a stream is bound to a
\* file only once every pipe descriptor is closed, and at the execve stage i
\* reads from pipe i-1 and writes to pipe i (the terminal at the two ends of
\* the pipeline) unless the stream has a file redirection, which then binds
\* it to the file.
PipeIn(p) == IF p > 1 THEN <<"pipe", p - 2, "r">> ELSE Tty

PipeOut(p) == IF p < loc.n THEN <<"pipe", p - 1, "w">> ELSE Tty

Bound(cmd, stream, wired) == IF stream \in cmd.redirs THEN File(stream) ELSE wired

BindsFile(p) ==
    \/ proc'[p].in # proc[p].in /\ proc'[p].in = File("in")
    \/ proc'[p].out # proc[p].out /\ proc'[p].out = File("out")
    \/ proc'[p].err # proc[p].err /\ proc'[p].err = File("err")

C29_ChildStepOrder ==
    [][loc.kind = "executePipeline" =>
          \A p \in DOMAIN proc :
              /\ proc'[p].fds # proc[p].fds =>
                    /\ proc[p].in = PipeIn(p)
                    /\ proc[p].out = PipeOut(p)
                    /\ proc'[p].fds = {}
              /\ BindsFile(p) => proc[p].fds = {}
              /\ (proc'[p].execd /\ ~proc[p].execd) =>
                    /\ proc[p].fds = {}
                    /\ proc[p].in = Bound(Cmd(p), "in", PipeIn(p))
                    /\ proc[p].out = Bound(Cmd(p), "out", PipeOut(p))
                    /\ proc[p].err = Bound(Cmd(p), "err", Tty)]_vars

C29_Witness ==
    \E p \in DOMAIN proc :
        /\ p > 1
        /\ proc[p].execd
        /\ proc[p].in = File("in")
        /\ proc[p].out = PipeOut(p)

\* C31: removeJob of a job that is not current leaves every remaining row as
\* it was, is_current included.
RemovesOther(jobId) ==
    /\ tbl_removeJob(jobId)
    /\ ~jobTable[getJob(jobTable, jobId)].is_current

C31_RemoveOtherKeepsMarker ==
    [][\A jobId \in 1..MaxTableOps :
          RemovesOther(jobId) =>
              \A k \in DOMAIN jobTable' : jobTable'[k] \in Range(jobTable)]_vars

\* C32: a step of a foreground executor (from the launch to the return) that
\* does not collect a stop status leaves the table and nextJobId as they
\* were; and a row is added to the table only by a foreground executor's step
\* that collects a stop status or by the step that ends a background launch.
FgExecutorStep ==
    \/ /\ pc = "prompt"
       /\ \/ ec_not_found
          \/ ec_fork_failed
          \/ ec_fork(FALSE)
          \/ \E n \in 2..MaxStages : ep_pipes(n, FALSE)
    \/ /\ pc \in {"ec_parent", "ec_wait", "ep_fork", "ep_wait"}
       /\ ~loc.bg
       /\ ec_parent \/ ec_wait \/ ep_fork \/ ep_parent \/ ep_wait

StopCollected ==
    \E p \in ForegroundProcs :
        /\ proc[p].ws = "stopped"
        /\ proc'[p] = [proc[p] EXCEPT !.ws = "none"]

C32_JobOnlyOnStopOrBackground ==
    [][/\ (FgExecutorStep /\ ~StopCollected) =>
             UNCHANGED <<jobTable, nextJobId>>
       /\ Len(jobTable') > Len(jobTable) =>
             \/ FgExecutorStep /\ StopCollected
             \/ BgLaunchReturns]_vars

C32_Witness ==
    /\ pc = "check"
    /\ ret = <<0>>
    /\ out = <<>>
    /\ proc[MaxProcs].st = "reaped"
    /\ nextJobId = 2
    /\ Len(jobTable) = 1
    /\ jobTable[1].is_current
    /\ MaxProcs \notin Range(jobTable[1].pids)

\* C33: the main flow is never in a foreground wait (executeCommand,
\* executePipeline, fg) whose waitpid has nothing to return while every process
\* of the awaited job is stopped or already reaped: a wait in that state
\* returns only if some process is yet killed, so the shell need not reach the
\* prompt again.
WaitBlocked ==
    \/ /\ pc = "ec_wait"
       /\ IsChild(loc.pid)
       /\ WaitStatus(loc.pid, TRUE, FALSE) = "none"
    \/ /\ pc \in {"ep_wait", "fg_wait"}
       /\ GroupMembers(loc.pgid) # {}
       /\ \A p \in GroupMembers(loc.pgid) : WaitStatus(p, TRUE, FALSE) = "none"

AwaitedProcs ==
    IF pc = "ec_wait" THEN {loc.pid}
    ELSE IF pc = "ep_wait" THEN Range(loc.pids)
    ELSE IF pc = "fg_wait" /\ getJob(jobTable, loc.job) # NoJob THEN FgJobPids
    ELSE {}

C33_ForegroundWaitNeverStuck ==
    WaitBlocked =>
        \E p \in AwaitedProcs : proc[p].st \notin {"stopped", "reaped"}

\* C34: the step that registers a background job never leaves a Running row
\* all of whose processes have been reaped already (their statuses, collected
\* by the Reaper between the fork and addJob, would be lost for the job).
C34_NoStatusLostBeforeAddJob ==
    [][BgLaunchReturns =>
          LET new == jobTable'[Len(jobTable')] IN
          new.state = RUNNING =>
              \E p \in Range(new.pids) : proc'[p].st # "reaped"]_vars

\* C35: Done is absorbing: a row in state Done is, after any step, still in
\* state Done or erased from the table.
C35_DoneIsAbsorbing ==
    [][\A k \in DOMAIN jobTable :
          jobTable[k].state = DONE =>
              LET m == getJob(jobTable', jobTable[k].jobId) IN
              m # NoJob => jobTable'[m].state = DONE]_vars

\* C36: a step that marks a job Done, or that erases a job from the table,
\* is taken only when every member process of the job has terminated.
C36_DoneOnlyWhenAllTerminated ==
    [][\A k \in DOMAIN jobTable :
          LET job == jobTable[k]
              m == getJob(jobTable', job.jobId) IN
          (\/ m = NoJob
           \/ job.state # DONE /\ jobTable'[m].state = DONE) =>
              \A p \in Range(job.pids) : Terminated(proc', p)]_vars

\* C37: in every reachable state, for a row that is Done and not notified
\* either job_status_changed is set or check_job_status_changes is scanning
\* and has not yet passed that row.
Unreported(k) == jobTable[k].state = DONE /\ ~jobTable[k].notified

C37_DoneIsNeverMissed ==
    \A k \in DOMAIN jobTable :
        Unreported(k) =>
            \/ job_status_changed = 1
            \/ pc = "scan" /\ loc.it <= k

C37_Witness ==
    /\ pc = "scan"
    /\ job_status_changed = 1
    /\ \E k \in DOMAIN jobTable : Unreported(k) /\ k < loc.it

\* C38: every step in which executePipeline returns to the read loop (a pipe
\* or fork failure, the end of a background launch, the end of the foreground
\* wait) leaves the shell with no open descriptor of a pipe of the pipeline.
EpReturns ==
    /\ pc' = "check"
    /\ \/ pc \in {"ep_fork", "ep_wait"}
       \/ pc = "prompt" /\ \E n \in 2..MaxStages, bg \in BOOLEAN : ep_pipes(n, bg)

C38_NoPipeLeftOpenOnReturn == [][EpReturns => open_pipes' = 0]_vars

====
